---- MODULE Spec2Model ----
(***************************************************************************)
(* The scan/track control loop of the PTZ client: look_for_object in       *)
(* main.py and the helpers it calls in source/bring_data.py and            *)
(* source/object_detector.py.                                              *)
(*                                                                         *)
(* Units.  The angles of look_for_object are whole degrees; a field of     *)
(* view and the pan and tilt of a relative move are hundredths of a        *)
(* degree; the positions of the batch maneuver are thousandths.  A reward  *)
(* and the confidence threshold are whole percents, so the test            *)
(* reward <= 1 - confidence of the code reads reward <= 100 - confidence   *)
(* here.  Pixel differences are kept doubled (2*diff_x = W - (x1+x2)) and  *)
(* quotients are kept as <<numerator, denominator>>: the only rounding of  *)
(* the model is that of a field of view to a hundredth of a degree.        *)
(*                                                                         *)
(* Binding of the calls.  main.py passes the camera client where           *)
(* bring_data.py builds a CameraControl handle, and the image it gets back *)
(* is what the second grab_image of get_image_from_ptz_position returned.  *)
(* Each function is modelled by its own body; the camera handle of         *)
(* bring_data.py is the camera port of the run.  An exception no handler   *)
(* of the code catches ends the run (pc = "crashed").                      *)
(***************************************************************************)
EXTENDS Integers, Sequences, FiniteSets, TLC

VARIABLES
    args,                  \* the parsed command line (main.py get_argparser)
    pc,                    \* position of look_for_object
    iteration,             \* loop variable of "for iteration in range(...)"
    current_tilt,          \* main.py:74
    found_object_in_scan,  \* main.py:78
    pans,                  \* main.py:80
    panIdx,                \* index in pans of the loop variable "pan"
    image,                 \* first result of get_image_from_ptz_position
    detection,             \* second result of it: <<>> for None, <<d>> for a detection d
    detections,            \* the list the detector returned at this probe
    trail,                 \* port calls of the probe of this pan position, in order
    trackTrail,            \* port calls of the maneuver of this pan position, in order
    lastAbs,               \* arguments of the last absolute_control call, <<>> before it
    target,                \* the detection handed to the maneuver: <<>> or <<d>>
    relMoves,              \* arguments of the relative_control calls of the maneuver
    sweepCalls,            \* number of port calls of each kind in this sweep
    probed,                \* pan values probed in this sweep, in order
    tracks,                \* number of maneuvers started in this sweep
    sweepClean,            \* every port call of this sweep succeeded
    detector,              \* what DetectorFactory.create_detector gave
    image_size,            \* image.size of the pictures of the camera
    current_position,      \* bring_data.py:219: <<current_pan, current_tilt, current_zoom>>, <<>> before it
    absolute_moves,        \* arguments of the absolute_control calls of the batch maneuver
    iteration_time,        \* main.py:114: seconds since line 77, 0 until measured
    slept,                 \* main.py:119: <<r>> after time.sleep(r) of this iteration, else <<>>
    camera_controller,     \* camera_mcp_server.py:15: the global of the camera server
    server,                \* position of the camera server: "imported", "serving", "exited"
    served,                \* the last tool call of the server: the tool, the controller it saw, what the
                           \* camera did, the camera calls made and the result; <<>> before it
    empty_sweeps,          \* number of finished scans of the run in which no maneuver was started
    empty_run,             \* number of such scans since the last scan with a maneuver
    client                 \* the last MCPClient call, what reached it and what it returned, <<>> before it

vars == <<args, pc, iteration, current_tilt, found_object_in_scan, pans, panIdx,
          image, detection, detections, trail, trackTrail, lastAbs, target,
          relMoves, sweepCalls, probed, tracks, sweepClean, detector,
          image_size, current_position, absolute_moves, iteration_time, slept,
          camera_controller, server, served, empty_sweeps, empty_run, client>>

None == "None"

\* the camera server and the client of it
rpc == <<camera_controller, server, served, client>>

\* the run of look_for_object
scan == <<args, pc, iteration, current_tilt, found_object_in_scan, pans, panIdx,
          image, detection, detections, trail, trackTrail, lastAbs, target,
          relMoves, sweepCalls, probed, tracks, sweepClean, detector,
          image_size, current_position, absolute_moves, iteration_time, slept,
          empty_sweeps, empty_run>>

\* what only the end of a scan writes: the count of the empty scans
idle == <<empty_sweeps, empty_run>>

\* what no step of look_for_object writes
fixed == <<image_size, current_position, absolute_moves, rpc>>

\* what only the two ends of an iteration write
wait == <<iteration_time, slept>>

-----------------------------------------------------------------------------
(* Bounds of the model *)

MaxIterations == 2
MaxDetections == 2
MaxPanStep == 400
MaxTrackFailures == 1
MaxZoomBeyond == 2
MaxImageWidth == 5
MaxImageHeight == 3
MaxSweeps == 4
MaxElapsed == 5
MaxDelay == 20

(* Constants of the program *)

FullCircle == 360
TiltFloor == -20
minZoomLevel == 1
maxZoomLevel == 40

-----------------------------------------------------------------------------
(* Inputs *)

PanSteps == {90, 180}
InitialTilts == {-15}
BoredomSteps == {5, 15}
Confidences == {50}
Zooms == {1}
IterDelays == {2}
ElapsedTimes == 0..MaxElapsed
ModelNames == {"yolo11n", "yolov7n", "florence-xl", "resnet50"}

ImageSize == <<20, 10>>

\* a box centred and 0.8 * W wide, a box off centre, a box of zero width
Centred == <<2, 3, 18, 7>>
OffCentre == <<0, 0, 10, 5>>
ZeroWidth == <<5, 2, 5, 8>>

Det(reward, bbox) == [reward |-> reward, bbox |-> bbox, label |-> "bird"]

\* what get_label_from_image_and_object can put in its list
Detections == {Det(30, Centred), Det(50, Centred), Det(50, ZeroWidth),
               Det(60, OffCentre)}

SeqsUpTo(S, n) == UNION {[1..k -> S] : k \in 0..n}

DetectionLists == SeqsUpTo(Detections, MaxDetections)

PortOps == {"CameraControl", "absolute_control", "position", "snap_shot",
            "detect", "relative_control"}

NoCalls == [op \in PortOps |-> 0]

-----------------------------------------------------------------------------
(* range(start, stop, step) of Python for step > 0: its length is          *)
(* (stop - start - 1) // step + 1 when start < stop and 0 otherwise, and   *)
(* its i-th item (from 0) is start + i * step.                             *)
range(start, stop, step) ==
    IF start >= stop THEN <<>>
    ELSE [i \in 1..((stop - start - 1) \div step + 1) |-> start + (i - 1) * step]

(* the stop value taken as a value of the list *)
PanList_inclusive(panstep) ==
    IF panstep > 0 THEN range(0, FullCircle + 1, panstep) ELSE <<>>

(* main.py:80 *)
PanList(panstep) ==
    IF panstep > 0 THEN range(0, FullCircle, panstep) ELSE <<>>

-----------------------------------------------------------------------------
(* DetectorFactory.create_detector: the model name is lowered, then its    *)
(* family is looked for and the name matched against VALID_MODELS.         *)
YoloNames == {"yolo11n", "yolov7n"}
FlorenceNames == {"Florence-base", "Florence-large", "florence-xl"}
VALID_MODELS == {"yolo11n", "Florence-base", "Florence-large"}

create_detector(model_name, loads) ==
    IF model_name \in YoloNames
    THEN IF model_name \notin VALID_MODELS THEN "ValueError"
         ELSE IF loads THEN "YOLODetector" ELSE "RuntimeError"
    ELSE IF model_name \in FlorenceNames
    THEN IF model_name \notin VALID_MODELS THEN "ValueError"
         ELSE IF loads THEN "FlorenceDetector" ELSE "OSError"
    ELSE "ValueError"

IsDetector(d) == d \in {"YOLODetector", "FlorenceDetector"}

-----------------------------------------------------------------------------
Args == [panstep : PanSteps, tilt : InitialTilts, zoom : Zooms,
         boredom_tilt_step : BoredomSteps, confidence : Confidences,
         iterations : 0..MaxIterations, model : ModelNames,
         iterdelay : IterDelays]

-----------------------------------------------------------------------------
(* The camera port.  A call ends normally ("ok") or raises ("raise"); an   *)
(* absolute move can also be turned down by the camera without raising     *)
(* ("rejected"), which the caller cannot see: it drops the result.         *)
Results == {"ok", "raise"}
MoveResults == {"ok", "rejected", "raise"}

Call(op, res) == [op |-> op, res |-> res]

Raised(t) == [trail |-> t, raised |-> TRUE, image |-> None, label |-> <<>>]

Failures(o, fields) == Cardinality({f \in fields : o[f] \notin {"ok", "rejected"}})

(* grab_image: the position query is outside the try, the snapshot inside *)
grab_image(pos, snap) ==
    IF pos = "raise"
    THEN [trail |-> <<Call("position", pos)>>, raised |-> TRUE, path |-> None]
    ELSE [trail |-> <<Call("position", pos), Call("snap_shot", snap)>>,
          raised |-> FALSE,
          path |-> IF snap = "raise" THEN None ELSE "image"]

(* the first detection of the list, whatever its reward *)
MinByReward_first(ds) == ds[1]

(* min(detections, key=lambda x: x['reward']): the first of the least *)
RECURSIVE MinByReward(_)
MinByReward(ds) ==
    IF Len(ds) = 1 THEN ds[1]
    ELSE LET m == MinByReward(SubSeq(ds, 1, Len(ds) - 1))
             d == ds[Len(ds)]
         IN IF d.reward < m.reward THEN d ELSE m

(* bring_data.py:376-386 *)
BestLabel(ds) ==
    IF ds = <<>> THEN <<>>
    ELSE LET best_detection == MinByReward(ds)
         IN <<[bbox |-> best_detection.bbox, label |-> best_detection.label,
               reward |-> best_detection.reward, first |-> TRUE]>>

(* what the calls of one get_image_from_ptz_position can do: the outcome   *)
(* of a call made after the first exception is never looked at             *)
ProbeFields == {"camera", "move", "pos1", "snap1", "detect", "pos2", "snap2"}
ProbeOutcomes ==
    {o \in [camera : Results, move : MoveResults, pos1 : Results,
            snap1 : Results, detect : Results, pos2 : Results, snap2 : Results] :
        Failures(o, ProbeFields) <= 1}

(* the picture the detector saw is the one handed back: one grab_image *)
get_image_from_ptz_position_one_grab(o, dets) ==
    LET t0 == <<Call("CameraControl", o.camera)>>
        t1 == Append(t0, Call("absolute_control", o.move))
        g1 == grab_image(o.pos1, o.snap1)
        t2 == t1 \o g1.trail
        t3 == Append(t2, Call("detect", o.detect))
    IN  IF o.camera = "raise" THEN Raised(t0)
        ELSE IF o.move = "raise" THEN Raised(t1)
        ELSE IF g1.raised \/ g1.path = None THEN Raised(t2)
        ELSE IF o.detect = "raise" THEN Raised(t3)
        ELSE [trail |-> t3, raised |-> FALSE, image |-> g1.path,
              label |-> BestLabel(dets)]

(* the detector called before the picture of the position is taken *)
get_image_from_ptz_position_detect_first(o, dets) ==
    LET t0 == <<Call("CameraControl", o.camera)>>
        t1 == Append(t0, Call("absolute_control", o.move))
        t2 == Append(t1, Call("detect", o.detect))
        g1 == grab_image(o.pos1, o.snap1)
        t3 == t2 \o g1.trail
        g2 == grab_image(o.pos2, o.snap2)
        t4 == t3 \o g2.trail
    IN  IF o.camera = "raise" THEN Raised(t0)
        ELSE IF o.move = "raise" THEN Raised(t1)
        ELSE IF o.detect = "raise" THEN Raised(t2)
        ELSE IF g1.raised \/ g1.path = None THEN Raised(t3)
        ELSE IF g2.raised THEN Raised(t4)
        ELSE [trail |-> t4, raised |-> FALSE, image |-> g2.path,
              label |-> BestLabel(dets)]

(* bring_data.py:359-404 *)
get_image_from_ptz_position(o, dets) ==
    LET t0 == <<Call("CameraControl", o.camera)>>
        t1 == Append(t0, Call("absolute_control", o.move))
        g1 == grab_image(o.pos1, o.snap1)
        t2 == t1 \o g1.trail
        t3 == Append(t2, Call("detect", o.detect))
        g2 == grab_image(o.pos2, o.snap2)
        t4 == t3 \o g2.trail
    IN  IF o.camera = "raise" THEN Raised(t0)       \* Camera1 is unbound at line 367
        ELSE IF o.move = "raise" THEN Raised(t1)
        ELSE IF g1.raised \/ g1.path = None THEN Raised(t2)  \* Image.open(None)
        ELSE IF o.detect = "raise" THEN Raised(t3)
        ELSE IF g2.raised THEN Raised(t4)
        ELSE [trail |-> t4, raised |-> FALSE, image |-> g2.path,
              label |-> BestLabel(dets)]

CountOp(t, op) == Cardinality({i \in DOMAIN t : t[i].op = op})
AddCalls(c, t) == [op \in PortOps |-> c[op] + CountOp(t, op)]
AllOk(t) == \A i \in DOMAIN t : t[i].res = "ok"
Has(t, op) == CountOp(t, op) > 0

Init ==
    /\ args \in Args
    /\ pc = "start"
    /\ iteration = 0
    /\ current_tilt = args.tilt
    /\ found_object_in_scan = FALSE
    /\ pans = <<>>
    /\ panIdx = 0
    /\ image = None
    /\ detection = <<>>
    /\ detections = <<>>
    /\ trail = <<>>
    /\ trackTrail = <<>>
    /\ lastAbs = <<>>
    /\ target = <<>>
    /\ relMoves = <<>>
    /\ sweepCalls = NoCalls
    /\ probed = <<>>
    /\ tracks = 0
    /\ sweepClean = TRUE
    /\ detector = None
    /\ image_size = ImageSize
    /\ current_position = <<>>
    /\ absolute_moves = <<>>
    /\ iteration_time = 0
    /\ slept = <<>>
    /\ empty_sweeps = 0
    /\ empty_run = 0
    /\ camera_controller = None
    /\ server = "imported"
    /\ served = <<>>
    /\ client = <<>>

(* the exception of create_detector swallowed: the loop is entered *)
CreateDetector_swallow ==
    /\ pc = "start"
    /\ \E loads \in BOOLEAN : detector' = create_detector(args.model, loads)
    /\ pc' = "iter"
    /\ current_tilt' = args.tilt
    /\ UNCHANGED <<fixed, idle, wait, args, iteration, found_object_in_scan, pans, panIdx, image,
                   detection, detections, trail, trackTrail, lastAbs, target,
                   relMoves, sweepCalls, probed, tracks, sweepClean>>

(* main.py:68-74 *)
CreateDetector ==
    /\ pc = "start"
    /\ \E loads \in BOOLEAN :
         LET d == create_detector(args.model, loads) IN
         /\ detector' = d
         /\ pc' = IF IsDetector(d) THEN "iter" ELSE "exited"
    /\ current_tilt' = args.tilt
    /\ UNCHANGED <<fixed, idle, wait, args, iteration, found_object_in_scan, pans, panIdx, image,
                   detection, detections, trail, trackTrail, lastAbs, target, relMoves,
                   sweepCalls, probed, tracks, sweepClean>>

(* main.py:76-82: the head of the iteration loop and the start of a scan *)
StartScan ==
    /\ pc = "iter"
    /\ iteration < args.iterations
    /\ found_object_in_scan' = FALSE
    /\ pans' = PanList(args.panstep)
    /\ panIdx' = 1
    /\ pc' = IF args.panstep = 0 THEN "crashed"
             ELSE IF PanList(args.panstep) = <<>> THEN "endscan" ELSE "probe"
    /\ sweepCalls' = NoCalls
    /\ probed' = <<>>
    /\ tracks' = 0
    /\ sweepClean' = TRUE
    /\ trail' = <<>>
    /\ trackTrail' = <<>>
    /\ target' = <<>>
    /\ relMoves' = <<>>
    /\ iteration_time' = 0
    /\ slept' = <<>>
    /\ UNCHANGED <<fixed, idle, args, iteration, current_tilt, image, detection,
                   detections, lastAbs, detector>>

(* main.py:76: the iteration loop is over *)
Finish ==
    /\ pc = "iter"
    /\ iteration >= args.iterations
    /\ pc' = "done"
    /\ UNCHANGED <<fixed, idle, wait, args, iteration, current_tilt, found_object_in_scan, pans,
                   panIdx, image, detection, detections, trail, trackTrail,
                   lastAbs, target, relMoves, sweepCalls, probed, tracks,
                   sweepClean, detector>>

(* main.py:84-91 with get_image_from_ptz_position, bring_data.py:359-404 *)
Probe ==
    /\ pc = "probe"
    /\ \E o \in ProbeOutcomes, dets \in DetectionLists :
         LET r == get_image_from_ptz_position(o, dets) IN
         /\ trail' = r.trail
         /\ lastAbs' = IF Has(r.trail, "absolute_control")
                       THEN <<pans[panIdx], current_tilt, args.zoom>>
                       ELSE lastAbs
         /\ sweepCalls' = AddCalls(sweepCalls, r.trail)
         /\ sweepClean' = (sweepClean /\ AllOk(r.trail))
         /\ detections' = IF r.raised THEN <<>> ELSE dets
         /\ image' = r.image
         /\ detection' = r.label
         /\ pc' = IF r.raised THEN "crashed" ELSE "decide"
    /\ probed' = Append(probed, pans[panIdx])
    /\ trackTrail' = <<>>
    /\ target' = <<>>
    /\ relMoves' = <<>>
    /\ UNCHANGED <<fixed, idle, wait, args, iteration, current_tilt, found_object_in_scan, pans,
                   panIdx, tracks, detector>>

-----------------------------------------------------------------------------
(* Quotients <<n, d>> *)
LeqRat(a, b) ==
    IF (a[2] > 0) = (b[2] > 0) THEN a[1] * b[2] <= b[1] * a[2]
    ELSE a[1] * b[2] >= b[1] * a[2]
MinRat(a, b) == IF LeqRat(a, b) THEN a ELSE b
IsZeroRat(a) == a[1] = 0

-----------------------------------------------------------------------------
(* The float arithmetic of get_fov_from_zoom in fixed point: a number x is  *)
(* kept as the integer x * One, an angle in degrees as hundredths of a      *)
(* degree, a length as hundredths of a millimetre.  The functions of the    *)
(* math library are evaluated by their power series to the last digit of    *)
(* One, in integers of 32 bits.                                             *)
One == 1000000
Kilo == 1000

\* a * b and a / b of two fixed-point numbers
MulFix(a, b) ==
    LET ah == a \div Kilo
        al == a % Kilo
        bh == b \div Kilo
        bl == b % Kilo
    IN  ah * bh + (ah * bl + al * bh) \div Kilo + (al * bl) \div One

DivFix(a, b) ==
    ((a * Kilo) \div b) * Kilo + (((a * Kilo) % b) * Kilo) \div b

\* t - t*x2/(n(n+1)) + t*x2^2/(n(n+1)(n+2)(n+3)) - ...
RECURSIVE AlternatingSeries(_, _, _, _)
AlternatingSeries(t, x2, n, terms) ==
    IF terms = 0 THEN 0
    ELSE t - AlternatingSeries(MulFix(t, x2) \div (n * (n + 1)), x2, n + 2,
                               terms - 1)

\* p/n - p*x2/(n+2) + p*x2^2/(n+4) - ...
RECURSIVE OddSeries(_, _, _, _)
OddSeries(p, x2, n, terms) ==
    IF terms = 0 THEN 0
    ELSE p \div n - OddSeries(MulFix(p, x2), x2, n + 2, terms - 1)

SeriesTerms == 8
AtanTerms == 23

\* math.radians of hundredths of a degree; math.degrees to hundredths of a
\* degree, rounded to the nearest
radians(c) == (c * 174533) \div 1000
degrees(y) == (MulFix(y, 5729578) + 500) \div 1000

sin(x) == AlternatingSeries(x, MulFix(x, x), 2, SeriesTerms)
cos(x) == AlternatingSeries(One, MulFix(x, x), 1, SeriesTerms)
tan(x) == DivFix(sin(x), cos(x))
atan(x) == OddSeries(x, MulFix(x, x), 1, AtanTerms)

(* bring_data.py:462-468 *)
min_focal_length == 425
h_wide == 6566
h_tele == 188
v_wide == 3940
v_tele == 109
min_zoom == 1
max_zoom == 40

Max(a, b) == IF a >= b THEN a ELSE b
Min(a, b) == IF a <= b THEN a ELSE b

(* the zoom level taken as it comes, not brought into min_zoom..max_zoom *)
ClampZoom_none(zoom_level) == zoom_level

(* bring_data.py:471 *)
ClampZoom(zoom_level) == Max(min_zoom, Min(max_zoom, zoom_level))

(* bring_data.py:462-484: <<current_h_fov, current_v_fov>> in hundredths   *)
(* of a degree.  A zoom level of 0 that is not clamped divides by zero:    *)
(* the function then gives no field of view (<<>>).                        *)
get_fov_from_zoom(zoom_level) ==
    LET zoom == ClampZoom(zoom_level)
        focal_length == min_focal_length * zoom
        sensor_width == 2 * min_focal_length * tan(radians(h_wide \div 2))
        sensor_height == 2 * min_focal_length * tan(radians(v_wide \div 2))
        current_h_fov == degrees(2 * atan(sensor_width \div (2 * focal_length)))
        current_v_fov == degrees(2 * atan(sensor_height \div (2 * focal_length)))
    IN  IF focal_length = 0 THEN <<>> ELSE <<current_h_fov, current_v_fov>>

\* the zoom levels the function is given: those of the camera and
\* MaxZoomBeyond levels below and above them
FovInputs == (min_zoom - MaxZoomBeyond)..(max_zoom + MaxZoomBeyond)

\* get_fov_from_zoom, evaluated once for each zoom level
FovAt == [zoom_level \in FovInputs |-> get_fov_from_zoom(zoom_level)]

ZoomLevels == {1, 40}

(* what the calls of one center_and_maximize_object can do, for the zoom   *)
(* levels Z the camera can report and at most n failed calls after the     *)
(* position query                                                          *)
TrackOutcomesOver(Z, n) ==
    {q \in [camera : Results, pos : Results, zoom_level : Z,
            rel1 : Results, rel2 : Results, snap : Results] :
        /\ (q.camera = "raise" => q.pos = "ok")
        /\ (q.camera = "raise" \/ q.pos = "raise") =>
              (q.zoom_level = minZoomLevel /\ q.rel1 = "ok" /\ q.rel2 = "ok"
               /\ q.snap = "ok")
        /\ Failures(q, {"rel1", "rel2", "snap"}) <= n}

TrackOutcomes == TrackOutcomesOver(ZoomLevels, MaxTrackFailures)

TrackRaised(t, m) == [trail |-> t, raised |-> TRUE, relMoves |-> m]

(* the centre of the box taken to be its first corner *)
CentreDiff2_corner(lo, hi, extent) == extent - 2 * lo

(* bring_data.py:97-106, doubled: 2 * (image_center - bbox_center) *)
CentreDiff2(lo, hi, extent) == extent - (lo + hi)

(* bring_data.py:85-203.  The pan and the tilt of the first relative move  *)
(* are quotients of hundredths of a degree; fovAt is the zoom level the    *)
(* camera reported and fov the field of view computed from it.             *)
center_and_maximize_object(confidence, bbox, size, reward, label, q) ==
    LET x1 == bbox[1]
        y1 == bbox[2]
        x2 == bbox[3]
        y2 == bbox[4]
        image_width == size[1]
        image_height == size[2]
        diff_x2 == CentreDiff2(x1, x2, image_width)     \* 2 * diff_x
        diff_y2 == CentreDiff2(y1, y2, image_height)    \* 2 * diff_y
        zoom_level == q.zoom_level
        fov == FovAt[zoom_level]                        \* line 129
        pan == <<-diff_x2 * fov[1], 2 * image_width>>
        tilt == <<-diff_y2 * fov[2], 2 * image_height>>
        move1 == [pan |-> pan, tilt |-> tilt, zoom |-> <<>>, fovAt |-> zoom_level,
                  fov |-> fov]
        bbox_width == x2 - x1
        bbox_height == y2 - y1
        zoom_factor == MinRat(<<image_width, bbox_width>>,
                              <<image_height, bbox_height>>)
        mz == minZoomLevel
        MZ == maxZoomLevel
        relative_zoom ==
            <<zoom_level * zoom_factor[1] * (MZ - mz) - zoom_level * MZ * zoom_factor[2],
              MZ * zoom_factor[2]>>
        move2 == [pan |-> <<0, 1>>, tilt |-> <<0, 1>>, zoom |-> relative_zoom,
                  fovAt |-> zoom_level, fov |-> fov]
        t0 == <<Call("CameraControl", q.camera)>>
        t1 == Append(t0, Call("position", q.pos))
        t2 == Append(t1, Call("relative_control", q.rel1))
        t3 == Append(t2, Call("relative_control", q.rel2))
        t4 == Append(t3, Call("snap_shot", q.snap))
    IN  IF q.camera = "raise" THEN TrackRaised(t0, <<>>)   \* Camera1 is unbound at line 125
        ELSE IF q.pos = "raise" THEN TrackRaised(t1, <<>>)
        ELSE IF fov = <<>> THEN TrackRaised(t1, <<>>)       \* ZeroDivisionError at line 481
        ELSE IF bbox_width = 0 \/ bbox_height = 0
             THEN TrackRaised(t2, <<move1>>)                \* ZeroDivisionError
        ELSE IF reward < 100 - confidence /\ label # None
             THEN [trail |-> t4, raised |-> FALSE, relMoves |-> <<move1, move2>>]
        ELSE [trail |-> t3, raised |-> FALSE, relMoves |-> <<move1, move2>>]

(* equality left out of the test *)
Qualifies_strict(label, confidence) ==
    label # <<>> /\ label[1].reward < 100 - confidence

(* main.py:97 *)
Qualifies(label, confidence) ==
    label # <<>> /\ label[1].reward <= 100 - confidence


(* main.py:93-95 *)
SkipPosition ==
    /\ pc = "decide"
    /\ image = None
    /\ pc' = "next"
    /\ UNCHANGED <<fixed, idle, wait, args, iteration, current_tilt, found_object_in_scan, pans,
                   panIdx, image, detection, detections, trail, trackTrail, lastAbs,
                   target, relMoves, sweepCalls, probed, tracks, sweepClean,
                   detector>>

(* main.py:97, the test fails *)
PassPosition ==
    /\ pc = "decide"
    /\ image # None
    /\ ~Qualifies(detection, args.confidence)
    /\ pc' = "next"
    /\ UNCHANGED <<fixed, idle, wait, args, iteration, current_tilt, found_object_in_scan, pans,
                   panIdx, image, detection, detections, trail, trackTrail, lastAbs,
                   target, relMoves, sweepCalls, probed, tracks, sweepClean,
                   detector>>

(* main.py:97-105 with center_and_maximize_object, the calls of which end *)
(* as one of Q                                                            *)
TrackWith(Q) ==
    /\ pc = "decide"
    /\ image # None
    /\ Qualifies(detection, args.confidence)
    /\ found_object_in_scan' = TRUE
    /\ tracks' = tracks + 1
    /\ \E q \in Q :
         LET r == center_and_maximize_object(args.confidence, detection[1].bbox,
                      image_size, detection[1].reward, detection[1].label, q) IN
         /\ trackTrail' = r.trail
         /\ relMoves' = r.relMoves
         /\ target' = detection
         /\ sweepCalls' = AddCalls(sweepCalls, r.trail)
         /\ sweepClean' = (sweepClean /\ AllOk(r.trail))
         /\ pc' = IF r.raised THEN "crashed" ELSE "next"
    /\ UNCHANGED <<fixed, idle, wait, args, iteration, current_tilt, pans, panIdx, image,
                   detection, detections, trail, lastAbs, probed, detector>>

Track == TrackWith(TrackOutcomes)

(* a position whose probe gave no image is probed again *)
NextPan_retry ==
    /\ pc = "next"
    /\ pc' = IF image = None \/ panIdx < Len(pans) THEN "probe" ELSE "endscan"
    /\ panIdx' = IF image # None /\ panIdx < Len(pans) THEN panIdx + 1 ELSE panIdx
    /\ image' = None
    /\ detection' = <<>>
    /\ detections' = <<>>
    /\ trail' = <<>>
    /\ trackTrail' = <<>>
    /\ target' = <<>>
    /\ relMoves' = <<>>
    /\ UNCHANGED <<fixed, idle, wait, args, iteration, current_tilt, found_object_in_scan, pans,
                   lastAbs, sweepCalls, probed, tracks, sweepClean,
                   detector>>

(* main.py:84: "for pan in pans" takes the next pan value or ends.  What   *)
(* the body left in image, detection and the call records of this position *)
(* is dropped here: nothing reads it before the next probe overwrites it.  *)
NextPan ==
    /\ pc = "next"
    /\ pc' = IF panIdx < Len(pans) THEN "probe" ELSE "endscan"
    /\ panIdx' = IF panIdx < Len(pans) THEN panIdx + 1 ELSE panIdx
    /\ image' = None
    /\ detection' = <<>>
    /\ detections' = <<>>
    /\ trail' = <<>>
    /\ trackTrail' = <<>>
    /\ target' = <<>>
    /\ relMoves' = <<>>
    /\ UNCHANGED <<fixed, idle, wait, args, iteration, current_tilt, found_object_in_scan, pans,
                   lastAbs, sweepCalls, probed, tracks, sweepClean,
                   detector>>

(* the tilt held at the floor instead of set back to the initial tilt *)
NextTilt_clamp(tilt, found, boredom_tilt_step, initial_tilt) ==
    IF found THEN tilt
    ELSE IF tilt - boredom_tilt_step < TiltFloor THEN TiltFloor
    ELSE tilt - boredom_tilt_step

(* the tilt lowered after every scan, also one that found something *)
NextTilt_always(tilt, found, boredom_tilt_step, initial_tilt) ==
    IF tilt - boredom_tilt_step < TiltFloor THEN initial_tilt
    ELSE tilt - boredom_tilt_step

(* the tilt set back as soon as it reaches the floor *)
NextTilt_floor_inclusive(tilt, found, boredom_tilt_step, initial_tilt) ==
    IF found THEN tilt
    ELSE IF tilt - boredom_tilt_step <= TiltFloor THEN initial_tilt
    ELSE tilt - boredom_tilt_step

(* the tilt lowered without the test of the floor *)
NextTilt_unbounded(tilt, found, boredom_tilt_step, initial_tilt) ==
    IF found THEN tilt ELSE tilt - boredom_tilt_step

(* main.py:107-112 *)
NextTilt(tilt, found, boredom_tilt_step, initial_tilt) ==
    IF found THEN tilt
    ELSE IF tilt - boredom_tilt_step < TiltFloor THEN initial_tilt
    ELSE tilt - boredom_tilt_step

(* the whole delay slept, whatever the scan took *)
remaining_delay_full(iterdelay, elapsed) ==
    IF iterdelay > 0 THEN <<iterdelay>> ELSE <<>>

(* main.py:115-119: the argument of time.sleep, <<>> when it is not called *)
remaining_delay(iterdelay, elapsed) ==
    IF iterdelay > 0
    THEN IF Max(0, iterdelay - elapsed) > 0
         THEN <<Max(0, iterdelay - elapsed)>>
         ELSE <<>>
    ELSE <<>>

(* main.py:107-119: the end of a scan, which took any of ElapsedTimes *)
EndScan ==
    /\ pc = "endscan"
    /\ current_tilt' = NextTilt(current_tilt, found_object_in_scan,
                                args.boredom_tilt_step, args.tilt)
    /\ \E elapsed \in ElapsedTimes :
         /\ iteration_time' = elapsed
         /\ slept' = remaining_delay(args.iterdelay, elapsed)
    /\ empty_sweeps' = IF tracks = 0 THEN empty_sweeps + 1 ELSE empty_sweeps
    /\ empty_run' = IF tracks = 0 THEN empty_run + 1 ELSE 0
    /\ iteration' = iteration + 1
    /\ pc' = "iter"
    /\ UNCHANGED <<fixed, args, found_object_in_scan, pans, panIdx, image, detection,
                   detections, trail, trackTrail, lastAbs, target, relMoves, sweepCalls,
                   probed, tracks, sweepClean, detector>>

Next ==
    \/ CreateDetector
    \/ StartScan
    \/ Probe
    \/ SkipPosition
    \/ PassPosition
    \/ Track
    \/ NextPan
    \/ EndScan
    \/ Finish

Spec == Init /\ [][Next]_vars

-----------------------------------------------------------------------------
(* The base tilt over many scans: runs of MaxSweeps scans of one pan       *)
(* position each, from the highest, a middle and the lowest initial tilt,  *)
(* with a small step, one that divides the way to the floor, a large and a *)
(* larger-than-the-range boredom step.                                     *)
TiltArgs == [panstep : {FullCircle}, tilt : {TiltFloor, 0, 90}, zoom : Zooms,
             boredom_tilt_step : {7, 10, 50, 111}, confidence : Confidences,
             iterations : {MaxSweeps}, model : {"yolo11n"},
             iterdelay : IterDelays]

InitTilt ==
    /\ args \in TiltArgs
    /\ pc = "start"
    /\ iteration = 0
    /\ current_tilt = args.tilt
    /\ found_object_in_scan = FALSE
    /\ pans = <<>>
    /\ panIdx = 0
    /\ image = None
    /\ detection = <<>>
    /\ detections = <<>>
    /\ trail = <<>>
    /\ trackTrail = <<>>
    /\ lastAbs = <<>>
    /\ target = <<>>
    /\ relMoves = <<>>
    /\ sweepCalls = NoCalls
    /\ probed = <<>>
    /\ tracks = 0
    /\ sweepClean = TRUE
    /\ detector = None
    /\ image_size = ImageSize
    /\ current_position = <<>>
    /\ absolute_moves = <<>>
    /\ iteration_time = 0
    /\ slept = <<>>
    /\ empty_sweeps = 0
    /\ empty_run = 0
    /\ camera_controller = None
    /\ server = "imported"
    /\ served = <<>>
    /\ client = <<>>

SpecTilt == InitTilt /\ [][Next]_vars

-----------------------------------------------------------------------------
(* The wait alone: the run at the end of the pan loop of its first scan,   *)
(* with or without a detection followed, for every delay from -1 to        *)
(* MaxDelay seconds and a scan that took any of ElapsedTimes.              *)
InitWait ==
    /\ args \in [panstep : {180}, tilt : {0}, zoom : {1},
                 boredom_tilt_step : {5}, confidence : {50}, iterations : {1},
                 model : {"yolo11n"}, iterdelay : (-1)..MaxDelay]
    /\ pc = "endscan"
    /\ iteration = 0
    /\ current_tilt = args.tilt
    /\ found_object_in_scan \in BOOLEAN
    /\ pans = PanList(args.panstep)
    /\ panIdx = Len(pans)
    /\ image = None
    /\ detection = <<>>
    /\ detections = <<>>
    /\ trail = <<>>
    /\ trackTrail = <<>>
    /\ lastAbs = <<pans[panIdx], current_tilt, args.zoom>>
    /\ target = <<>>
    /\ relMoves = <<>>
    /\ sweepCalls = NoCalls
    /\ probed = pans
    /\ tracks = IF found_object_in_scan THEN 1 ELSE 0
    /\ sweepClean = TRUE
    /\ detector = "YOLODetector"
    /\ image_size = ImageSize
    /\ current_position = <<>>
    /\ absolute_moves = <<>>
    /\ iteration_time = 0
    /\ slept = <<>>
    /\ empty_sweeps = 0
    /\ empty_run = 0
    /\ camera_controller = None
    /\ server = "imported"
    /\ served = <<>>
    /\ client = <<>>

SpecWait == InitWait /\ [][EndScan]_vars

-----------------------------------------------------------------------------
(* The pan list alone: the run right after the detector was built, for     *)
(* every pan step up to MaxPanStep, and the start of its first scan.       *)
InitPans ==
    /\ args \in [panstep : 1..MaxPanStep, tilt : {0}, zoom : {1},
                 boredom_tilt_step : {5}, confidence : {50}, iterations : {1},
                 model : {"yolo11n"}, iterdelay : IterDelays]
    /\ pc = "iter"
    /\ iteration = 0
    /\ current_tilt = args.tilt
    /\ found_object_in_scan = FALSE
    /\ pans = <<>>
    /\ panIdx = 0
    /\ image = None
    /\ detection = <<>>
    /\ detections = <<>>
    /\ trail = <<>>
    /\ trackTrail = <<>>
    /\ lastAbs = <<>>
    /\ target = <<>>
    /\ relMoves = <<>>
    /\ sweepCalls = NoCalls
    /\ probed = <<>>
    /\ tracks = 0
    /\ sweepClean = TRUE
    /\ detector = "YOLODetector"
    /\ image_size = ImageSize
    /\ current_position = <<>>
    /\ absolute_moves = <<>>
    /\ iteration_time = 0
    /\ slept = <<>>
    /\ empty_sweeps = 0
    /\ empty_run = 0
    /\ camera_controller = None
    /\ server = "imported"
    /\ served = <<>>
    /\ client = <<>>

SpecPans == InitPans /\ [][StartScan]_vars

-----------------------------------------------------------------------------
(* The maneuver alone: the run at the first pan position of a scan, right  *)
(* after a probe whose calls all succeeded and whose detector found one    *)
(* box, for every image size up to MaxImageWidth x MaxImageHeight, every   *)
(* box with integer corners inside the image and every zoom level of       *)
(* FovInputs the position query can answer.                                *)
ImageSizes == (1..MaxImageWidth) \X (1..MaxImageHeight)

Boxes(size) ==
    {b \in (0..size[1]) \X (0..size[2]) \X (0..size[1]) \X (0..size[2]) :
        b[1] <= b[3] /\ b[2] <= b[4]}

CleanProbe == [f \in ProbeFields |-> "ok"]

InitTrack ==
    /\ args \in [panstep : {90}, tilt : {0}, zoom : {1},
                 boredom_tilt_step : {5}, confidence : {50}, iterations : {1},
                 model : {"yolo11n"}, iterdelay : IterDelays]
    /\ pc = "decide"
    /\ iteration = 0
    /\ current_tilt = args.tilt
    /\ found_object_in_scan = FALSE
    /\ pans = PanList(args.panstep)
    /\ panIdx = 1
    /\ image_size \in ImageSizes
    /\ \E bbox \in Boxes(image_size) :
         LET dets == <<Det(30, bbox)>>
             r == get_image_from_ptz_position(CleanProbe, dets)
         IN  /\ detections = dets
             /\ image = r.image
             /\ detection = r.label
             /\ trail = r.trail
             /\ sweepCalls = AddCalls(NoCalls, r.trail)
    /\ trackTrail = <<>>
    /\ lastAbs = <<pans[panIdx], current_tilt, args.zoom>>
    /\ target = <<>>
    /\ relMoves = <<>>
    /\ probed = <<pans[panIdx]>>
    /\ tracks = 0
    /\ sweepClean = TRUE
    /\ detector = "YOLODetector"
    /\ current_position = <<>>
    /\ absolute_moves = <<>>
    /\ iteration_time = 0
    /\ slept = <<>>
    /\ empty_sweeps = 0
    /\ empty_run = 0
    /\ camera_controller = None
    /\ server = "imported"
    /\ served = <<>>
    /\ client = <<>>

TrackAnyZoom == TrackWith(TrackOutcomesOver(FovInputs, 0))

SpecTrack == InitTrack /\ [][TrackAnyZoom]_vars

-----------------------------------------------------------------------------
(* The batch maneuver center_and_maximize_objects_absolute, which no line  *)
(* of main.py calls: it is modelled as called once on the detections of a  *)
(* picture.  The pan and the tilt of the camera position and of the moves  *)
(* are thousandths of a degree, the moves quotients of them.               *)
PanTurn == 360000
TiltMax == 90000
TiltMin == -20000

(* the value left as it is *)
Clamp_none(r, lo, hi) == r

(* bring_data.py:287-290 and 318-321 *)
Clamp(r, lo, hi) ==
    IF r[1] > hi * r[2] THEN <<hi, 1>>
    ELSE IF r[1] < lo * r[2] THEN <<lo, 1>>
    ELSE r

(* bring_data.py:282-285 *)
WrapPan(r) ==
    IF r[1] > PanTurn * r[2] THEN <<r[1] - PanTurn * r[2], r[2]>>
    ELSE IF r[1] < 0 THEN <<r[1] + PanTurn * r[2], r[2]>>
    ELSE r

(* bring_data.py:242-326: the absolute position and zoom for one box that  *)
(* has a width and a height                                                *)
AbsoluteTarget(d, size, position, fov) ==
    LET x1 == d.bbox[1]
        y1 == d.bbox[2]
        x2 == d.bbox[3]
        y2 == d.bbox[4]
        image_width == size[1]
        image_height == size[2]
        diff_x2 == CentreDiff2(x1, x2, image_width)
        diff_y2 == CentreDiff2(y1, y2, image_height)
        current_zoom == position[3]
        \* hundredths of a degree of the field of view to thousandths
        pan == <<-diff_x2 * fov[1] * 10, 2 * image_width>>
        tilt == <<-diff_y2 * fov[2] * 10, 2 * image_height>>
        absolute_pan == WrapPan(<<position[1] * pan[2] + pan[1], pan[2]>>)
        absolute_tilt == Clamp(<<position[2] * tilt[2] + tilt[1], tilt[2]>>,
                               TiltMin, TiltMax)
        zoom_factor == MinRat(<<image_width, x2 - x1>>, <<image_height, y2 - y1>>)
        mz == minZoomLevel
        MZ == maxZoomLevel
        relative_zoom ==
            <<current_zoom * zoom_factor[1] * (MZ - mz)
                  - current_zoom * MZ * zoom_factor[2],
              MZ * zoom_factor[2]>>
        absolute_zoom ==
            Clamp(<<current_zoom * relative_zoom[2] + relative_zoom[1],
                    relative_zoom[2]>>, minZoomLevel, maxZoomLevel)
    IN  [pan |-> absolute_pan, tilt |-> absolute_tilt, zoom |-> absolute_zoom,
         label |-> d.label, confidence |-> 100 - d.reward, bbox |-> d.bbox]

(* no detection is passed over *)
Skipped_never(d, confidence) == FALSE

(* bring_data.py:238-239 *)
Skipped(d, confidence) == d.reward > 100 - confidence

(* bring_data.py:231-326: the first loop.  A box without width or height   *)
(* raises ZeroDivisionError at line 301 or 302.                            *)
RECURSIVE AbsoluteTargets(_, _, _, _, _)
AbsoluteTargets(dets, confidence, size, position, fov) ==
    IF dets = <<>> THEN [raised |-> FALSE, targets |-> <<>>]
    ELSE LET d == Head(dets)
             rest == AbsoluteTargets(Tail(dets), confidence, size, position, fov)
         IN  IF Skipped(d, confidence) THEN rest
             ELSE IF d.bbox[3] = d.bbox[1] \/ d.bbox[4] = d.bbox[2]
                  THEN [raised |-> TRUE, targets |-> <<>>]
             ELSE IF rest.raised THEN rest
             ELSE [raised |-> FALSE,
                   targets |-> <<AbsoluteTarget(d, size, position, fov)>>
                               \o rest.targets]

(* bring_data.py:328-357: the second loop; an exception of the move skips  *)
(* the capture of that target and is logged                                *)
RECURSIVE MoveAndCapture(_, _, _)
MoveAndCapture(targets, calls, i) ==
    IF i > Len(targets) THEN <<>>
    ELSE (IF calls[i].move = "raise"
          THEN <<Call("absolute_control", "raise")>>
          ELSE <<Call("absolute_control", calls[i].move),
                 Call("snap_shot", calls[i].snap)>>)
         \o MoveAndCapture(targets, calls, i + 1)

CurrentPans == {0, 343585, 359000}
CurrentTilts == {TiltMin, 0, TiltMax}

(* what the calls of one center_and_maximize_objects_absolute can do *)
BatchOutcomes ==
    {q \in [camera : Results, pos : Results,
            position : CurrentPans \X CurrentTilts \X ZoomLevels,
            calls : [1..MaxDetections -> [move : Results, snap : Results]]] :
        /\ (q.camera = "raise" => q.pos = "ok")
        /\ \A i \in 1..MaxDetections :
              (q.calls[i].move = "raise" \/ q.camera = "raise" \/ q.pos = "raise")
                  => q.calls[i].snap = "ok"
        /\ (q.camera = "raise" \/ q.pos = "raise") =>
              \A i \in 1..MaxDetections : q.calls[i].move = "ok"
        /\ Cardinality({i \in 1..MaxDetections : q.calls[i].move = "raise"})
              + Cardinality({i \in 1..MaxDetections : q.calls[i].snap = "raise"})
              <= MaxTrackFailures}

(* bring_data.py:205-357 *)
center_and_maximize_objects_absolute(confidence, dets, size, q) ==
    LET t0 == <<Call("CameraControl", q.camera)>>
        t1 == Append(t0, Call("position", q.pos))
        fov == FovAt[q.position[3]]
        loop == AbsoluteTargets(dets, confidence, size, q.position, fov)
    IN  IF q.camera = "raise"                       \* Camera1 is unbound at line 219
        THEN [trail |-> t0, raised |-> TRUE, position |-> <<>>, moves |-> <<>>]
        ELSE IF q.pos = "raise"
        THEN [trail |-> t1, raised |-> TRUE, position |-> <<>>, moves |-> <<>>]
        ELSE IF loop.raised
        THEN [trail |-> t1, raised |-> TRUE, position |-> q.position,
              moves |-> <<>>]
        ELSE [trail |-> t1 \o MoveAndCapture(loop.targets, q.calls, 1),
              raised |-> FALSE, position |-> q.position,
              moves |-> loop.targets]

TrackAbsolute ==
    /\ pc = "batch"
    /\ \E q \in BatchOutcomes :
         LET r == center_and_maximize_objects_absolute(args.confidence,
                      detections, image_size, q) IN
         /\ trackTrail' = r.trail
         /\ current_position' = r.position
         /\ absolute_moves' = r.moves
         /\ pc' = IF r.raised THEN "crashed" ELSE "batch_done"
    /\ UNCHANGED <<rpc, idle, wait, args, iteration, current_tilt, found_object_in_scan, pans,
                   panIdx, image, detection, detections, trail, lastAbs, target,
                   relMoves, sweepCalls, probed, tracks, sweepClean, detector,
                   image_size>>

\* the lists the batch maneuver is given: every single box of the picture,
\* and the lists of up to MaxDetections detections of two boxes (the whole
\* picture, its first pixel), each with a reward below and a reward above
\* 1 - confidence
BatchSample(size) ==
    {Det(r, b) : r \in {30, 60}, b \in {<<0, 0, size[1], size[2]>>, <<0, 0, 1, 1>>}}

BatchLists(size) ==
    {<<Det(30, b)>> : b \in Boxes(size)} \cup SeqsUpTo(BatchSample(size), MaxDetections)

InitAbsolute ==
    /\ args \in [panstep : {90}, tilt : {0}, zoom : {1},
                 boredom_tilt_step : {5}, confidence : {50}, iterations : {1},
                 model : {"yolo11n"}, iterdelay : IterDelays]
    /\ pc = "batch"
    /\ iteration = 0
    /\ current_tilt = args.tilt
    /\ found_object_in_scan = FALSE
    /\ pans = <<>>
    /\ panIdx = 0
    /\ image = "image"
    /\ image_size \in ImageSizes
    /\ detections \in BatchLists(image_size)
    /\ detection = <<>>
    /\ trail = <<>>
    /\ trackTrail = <<>>
    /\ lastAbs = <<>>
    /\ target = <<>>
    /\ relMoves = <<>>
    /\ sweepCalls = NoCalls
    /\ probed = <<>>
    /\ tracks = 0
    /\ sweepClean = TRUE
    /\ detector = "YOLODetector"
    /\ current_position = <<>>
    /\ absolute_moves = <<>>
    /\ iteration_time = 0
    /\ slept = <<>>
    /\ empty_sweeps = 0
    /\ empty_run = 0
    /\ camera_controller = None
    /\ server = "imported"
    /\ served = <<>>
    /\ client = <<>>

SpecAbsolute == InitAbsolute /\ [][TrackAbsolute]_vars

-----------------------------------------------------------------------------
(* The camera server, camera_mcp_server.py, and the client of it,          *)
(* source/mcp_client.py.  A dictionary is a record, a value of it the text *)
(* of the value; an optional value is <<>> for None and <<v>> for v.       *)
(* The tools are registered on the object mcp when the module is imported  *)
(* (lines 14-98) and run for whoever serves that object; main() serves it  *)
(* after it has built the camera controller.                               *)

ServerTools == {"get_position", "move_absolute", "move_relative",
                "take_snapshot", "stop_movement"}

\* what the call of the camera does inside a tool: it returns, it raises,
\* or (snap_shot) it returns no bytes
CameraOutcomes == {"ok", "raise", "empty"}

Images == {"hi"}
b64encode(bytes) == IF bytes = "hi" THEN "aGk=" ELSE "?"
(* base64.b64decode: <<bytes>>, or <<>> when it raises binascii.Error *)
b64decode(text) ==
    IF \E b \in Images : b64encode(b) = text
    THEN <<CHOOSE b \in Images : b64encode(b) = text>>
    ELSE <<>>

NotInitialized == [error |-> "Camera controller not initialized."]

(* camera_mcp_server.py:19-33 *)
get_position(controller, cam) ==
    IF controller = None THEN NotInitialized
    ELSE IF cam = "raise" THEN [error |-> "str(e)"]
    ELSE [pan |-> "12.5", tilt |-> "-3.0", zoom |-> "1.0"]

(* camera_mcp_server.py:35-48 *)
move_absolute(controller, cam) ==
    IF controller = None THEN NotInitialized
    ELSE IF cam = "raise" THEN [status |-> "error", message |-> "str(e)"]
    ELSE [status |-> "success", message |-> "Move initiated."]

(* camera_mcp_server.py:50-63 *)
move_relative(controller, cam) ==
    IF controller = None THEN NotInitialized
    ELSE IF cam = "raise" THEN [status |-> "error", message |-> "str(e)"]
    ELSE [status |-> "success", message |-> "Relative move initiated."]

(* camera_mcp_server.py:65-83 *)
take_snapshot(controller, cam) ==
    IF controller = None THEN NotInitialized
    ELSE IF cam = "raise" THEN [status |-> "error", message |-> "str(e)"]
    ELSE IF cam = "empty"
    THEN [status |-> "error", message |-> "Failed to capture image bytes."]
    ELSE [status |-> "success", image_base64 |-> b64encode("hi")]

(* camera_mcp_server.py:85-98 *)
stop_movement(controller, cam) ==
    IF controller = None THEN NotInitialized
    ELSE IF cam = "raise" THEN [status |-> "error", message |-> "str(e)"]
    ELSE [status |-> "success", message |-> "Stop command sent."]

ToolResult(tool, controller, cam) ==
    CASE tool = "get_position" -> get_position(controller, cam)
      [] tool = "move_absolute" -> move_absolute(controller, cam)
      [] tool = "move_relative" -> move_relative(controller, cam)
      [] tool = "take_snapshot" -> take_snapshot(controller, cam)
      [] tool = "stop_movement" -> stop_movement(controller, cam)

(* the method of the camera controller a tool calls: lines 28, 44, 59, 74, 94 *)
CameraMethod(tool) ==
    CASE tool = "get_position" -> "requesting_cameras_position_information"
      [] tool = "move_absolute" -> "absolute_control"
      [] tool = "move_relative" -> "relative_control"
      [] tool = "take_snapshot" -> "snap_shot"
      [] tool = "stop_movement" -> "stop_control"

(* the camera called whether or not there is a controller *)
ToolCommands_unguarded(tool, controller) == <<CameraMethod(tool)>>

(* the calls a tool makes on the camera: none behind the guard of lines    *)
(* 25, 40, 55, 70, 90, else the one call of its try block                  *)
ToolCommands(tool, controller) ==
    IF controller = None THEN <<>> ELSE <<CameraMethod(tool)>>

(* camera_mcp_server.py:120-140: main() builds the controller and serves,  *)
(* or leaves with sys.exit(1)                                              *)
ServerMain ==
    /\ server = "imported"
    /\ \E built \in BOOLEAN :
         /\ camera_controller' = IF built THEN "CameraControl" ELSE None
         /\ server' = IF built THEN "serving" ELSE "exited"
    /\ UNCHANGED <<scan, served, client>>

(* a tool is run: by the server main() started, or by a host that serves   *)
(* the object mcp of the imported module                                   *)
ToolCall ==
    /\ server \in {"imported", "serving"}
    /\ \E tool \in ServerTools, cam \in CameraOutcomes :
         served' = [tool |-> tool,
                    controller |-> camera_controller,
                    cam |-> cam,
                    commands |-> ToolCommands(tool, camera_controller),
                    result |-> ToolResult(tool, camera_controller, cam)]
    /\ UNCHANGED <<scan, camera_controller, server, client>>

ClientOps == {"get_position", "move_absolute", "move_relative", "take_snapshot"}

EmptyDict == [k \in {} |-> None]
Truthy(dict) == DOMAIN dict # {}
Get(dict, key) == IF key \in DOMAIN dict THEN dict[key] ELSE None

\* what requests.post can end as: the three exceptions of lines 36-37, or
\* an answer whose JSON body is a result of the tool, an empty dictionary,
\* a position without tilt and zoom, or a snapshot that is no base64
Bodies(op) ==
    {ToolResult(op, c, cam) : c \in {None, "CameraControl"}, cam \in CameraOutcomes}
    \cup {EmptyDict}
    \cup (IF op = "get_position" THEN {[pan |-> "12.5"]} ELSE {})
    \cup (IF op = "take_snapshot"
          THEN {[status |-> "success", image_base64 |-> "a"]} ELSE {})

Transport(op) ==
    {[kind |-> k, body |-> EmptyDict] : k \in {"ConnectionError", "Timeout", "HTTPError"}}
    \cup {[kind |-> "json", body |-> b] : b \in Bodies(op)}

(* a timeout of the post is not caught *)
make_request_timeout_escapes(t) ==
    IF t.kind = "Timeout" THEN [raised |-> "Timeout", response |-> <<>>]
    ELSE IF t.kind = "json" THEN [raised |-> None, response |-> <<t.body>>]
    ELSE [raised |-> None, response |-> <<>>]

(* mcp_client.py:22-41: ConnectionError, Timeout and HTTPError are          *)
(* RequestExceptions                                                       *)
make_request(t) ==
    IF t.kind = "json" THEN [raised |-> None, response |-> <<t.body>>]
    ELSE [raised |-> None, response |-> <<>>]

Return(ok, value) == [raised |-> None, ok |-> ok, value |-> value]
Raise(e) == [raised |-> e, ok |-> FALSE, value |-> <<>>]

(* mcp_client.py:43-53 *)
MCPClient_get_position(t) ==
    LET r == make_request(t) IN
    IF r.raised # None THEN Raise(r.raised)
    ELSE IF r.response # <<>> /\ Truthy(r.response[1])
            /\ Get(r.response[1], "pan") # None
    THEN IF {"tilt", "zoom"} \subseteq DOMAIN r.response[1]
         THEN Return(TRUE, <<<<r.response[1].pan, r.response[1].tilt,
                               r.response[1].zoom>>>>)
         ELSE Raise("KeyError")
    ELSE Return(FALSE, <<>>)

(* mcp_client.py:55-63 and 65-73: "response and status == 'success'" *)
MCPClient_move(t) ==
    LET r == make_request(t) IN
    IF r.raised # None THEN Raise(r.raised)
    ELSE IF r.response = <<>> THEN Return(FALSE, <<>>)
    ELSE IF ~Truthy(r.response[1]) THEN Return(FALSE, r.response)
    ELSE Return(Get(r.response[1], "status") = "success",
                <<Get(r.response[1], "status") = "success">>)

MCPClient_move_absolute(t) == MCPClient_move(t)
MCPClient_move_relative(t) == MCPClient_move(t)

(* mcp_client.py:75-90 *)
MCPClient_take_snapshot(t) ==
    LET r == make_request(t) IN
    IF r.raised # None THEN Raise(r.raised)
    ELSE IF r.response # <<>> /\ Truthy(r.response[1])
            /\ Get(r.response[1], "status") = "success"
            /\ "image_base64" \in DOMAIN r.response[1]
    THEN Return(b64decode(r.response[1].image_base64) # <<>>,
                b64decode(r.response[1].image_base64))
    ELSE Return(FALSE, <<>>)

ClientResult(op, t) ==
    CASE op = "get_position" -> MCPClient_get_position(t)
      [] op = "move_absolute" -> MCPClient_move_absolute(t)
      [] op = "move_relative" -> MCPClient_move_relative(t)
      [] op = "take_snapshot" -> MCPClient_take_snapshot(t)

(* one call of an operation of MCPClient *)
ClientCall ==
    /\ \E op \in ClientOps : \E t \in Transport(op) :
         client' = [op |-> op, reply |-> t, result |-> ClientResult(op, t)]
    /\ UNCHANGED <<scan, camera_controller, server, served>>

(* the server as imported and the client as constructed, look_for_object   *)
(* not yet started                                                         *)
InitRpc ==
    /\ args \in [panstep : {90}, tilt : {0}, zoom : {1},
                 boredom_tilt_step : {5}, confidence : {50}, iterations : {1},
                 model : {"yolo11n"}, iterdelay : IterDelays]
    /\ pc = "start"
    /\ iteration = 0
    /\ current_tilt = args.tilt
    /\ found_object_in_scan = FALSE
    /\ pans = <<>>
    /\ panIdx = 0
    /\ image = None
    /\ detection = <<>>
    /\ detections = <<>>
    /\ trail = <<>>
    /\ trackTrail = <<>>
    /\ lastAbs = <<>>
    /\ target = <<>>
    /\ relMoves = <<>>
    /\ sweepCalls = NoCalls
    /\ probed = <<>>
    /\ tracks = 0
    /\ sweepClean = TRUE
    /\ detector = None
    /\ image_size = ImageSize
    /\ current_position = <<>>
    /\ absolute_moves = <<>>
    /\ iteration_time = 0
    /\ slept = <<>>
    /\ empty_sweeps = 0
    /\ empty_run = 0
    /\ camera_controller = None
    /\ server = "imported"
    /\ served = <<>>
    /\ client = <<>>

NextRpc ==
    \/ ServerMain
    \/ ToolCall
    \/ ClientCall

SpecRpc == InitRpc /\ [][NextRpc]_vars

-----------------------------------------------------------------------------
(* Claims *)

ScanStarted ==
    pc \in {"probe", "decide", "next", "endscan", "crashed"} \/ iteration > 0

QualifyingAt(ds, confidence) ==
    \E i \in DOMAIN ds : ds[i].reward <= 100 - confidence

\* C1: for a pan step s > 0 the pan list of a sweep is 0, s, 2s, ... in
\* ascending order, holds every multiple of s below 360 and no value of 360
\* or more.
PansExact ==
    (ScanStarted /\ args.panstep > 0) =>
        LET s == args.panstep IN
        /\ pans # <<>>
        /\ pans[1] = 0
        /\ \A i \in 2..Len(pans) : pans[i] = pans[i - 1] + s
        /\ \A i \in 1..Len(pans) : pans[i] < 360
        /\ \A k \in 0..359 : (k % s = 0) => \E i \in 1..Len(pans) : pans[i] = k

PansWitness ==
    /\ ScanStarted
    /\ args.panstep = 15
    /\ Len(pans) = 24
    /\ pans[1] = 0
    /\ pans[24] = 345

\* C2: at the end of a sweep in which nothing was tracked the base tilt
\* becomes tilt - boredom step, unless that is below -20: then it becomes the
\* initial tilt of the run.
TiltAfterEmptySweep ==
    [][(pc = "endscan" /\ tracks = 0) =>
          current_tilt' =
              IF current_tilt - args.boredom_tilt_step < -20 THEN args.tilt
              ELSE current_tilt - args.boredom_tilt_step]_vars

\* two empty sweeps from tilt -15 with step 5: down to -20, which is kept,
\* then -25 is below the floor and the tilt is -15 again
TiltWitness ==
    /\ pc = "iter"
    /\ iteration = 2
    /\ tracks = 0
    /\ args.tilt = -15
    /\ args.boredom_tilt_step = 5
    /\ current_tilt = -15

\* C3: at a probe position whose image was handed to the controller, a
\* maneuver is started exactly when some detection of the list has
\* reward <= 1 - confidence, at most one is started, and it is started on a
\* detection of least reward.
TrackIffQualifies ==
    [][(pc = "decide" /\ image # None) =>
          /\ (tracks' = tracks + 1) <=> QualifyingAt(detections, args.confidence)
          /\ tracks' \in {tracks, tracks + 1}
          /\ (tracks' = tracks + 1) =>
                /\ target' # <<>>
                /\ \A i \in DOMAIN detections :
                      target'[1].reward <= detections[i].reward
                /\ \E i \in DOMAIN detections :
                      /\ target'[1].reward = detections[i].reward
                      /\ target'[1].bbox = detections[i].bbox]_vars

TrackWitness ==
    /\ pc = "next"
    /\ tracks = 1
    /\ Len(detections) = 2
    /\ detections[1].reward = 60
    /\ target # <<>>
    /\ target[1].reward = 100 - args.confidence

\* C4: of a non-empty list of detections the selector gives one whose reward
\* is at most the reward of every detection of the list; of the empty list
\* it gives none.
BestIsMinimum ==
    pc = "decide" =>
        /\ (detections = <<>>) <=> (detection = <<>>)
        /\ detection # <<>> =>
              /\ \A i \in DOMAIN detections :
                    detection[1].reward <= detections[i].reward
              /\ \E i \in DOMAIN detections :
                    /\ detection[1].reward = detections[i].reward
                    /\ detection[1].bbox = detections[i].bbox
                    /\ detection[1].label = detections[i].label

BestWitness ==
    /\ pc = "decide"
    /\ detections = <<Det(60, OffCentre), Det(30, Centred)>>
    /\ detection # <<>>
    /\ detection[1].reward = 30

FailedCall(t, op) == \E i \in DOMAIN t : t[i].op = op /\ t[i].res # "ok"

\* C5: a maneuver at one pan position never ends the sweep: once a detection
\* was tracked in a sweep, the sweep ends only after every pan position of
\* its list was probed, in order.
SweepGoesOnAfterTrack ==
    (tracks > 0 /\ pc \in {"endscan", "crashed"}) => probed = pans

ManeuverOneMoveOneCapture ==
    (pc = "next" /\ target # <<>>) =>
        /\ CountOp(trackTrail, "relative_control") = 1
        /\ CountOp(trackTrail, "snap_shot") = 1
        /\ trackTrail[Len(trackTrail)].op = "snap_shot"
        /\ Len(relMoves) = 1
        /\ relMoves[1].zoom # <<>>
        /\ (target[1].bbox = Centred) =>
              /\ IsZeroRat(relMoves[1].pan)
              /\ IsZeroRat(relMoves[1].tilt)
              /\ IsZeroRat(relMoves[1].zoom)

\* C8: when the absolute move of a pan position fails, the sweep is not
\* ended, nothing is tracked at that position and the next pan position is
\* probed.
FailedMoveSkipsPosition ==
    FailedCall(trail, "absolute_control") =>
        /\ pc # "crashed"
        /\ target = <<>>

\* C9: when a capture of a pan position fails, the detector is not called
\* for it, nothing is tracked at it and the next pan position is probed.
FailedCaptureSkipsPosition ==
    FailedCall(trail, "snap_shot") =>
        /\ pc # "crashed"
        /\ ~Has(trail, "detect")
        /\ target = <<>>

\* C10: when the detector cannot be built the process is over before the
\* loop: no absolute move, capture or detector call is made in that run.
NoLoopWithoutDetector ==
    (pc # "start" /\ ~IsDetector(detector)) =>
        /\ pc = "exited"
        /\ sweepCalls = NoCalls
        /\ trail = <<>>
        /\ trackTrail = <<>>
        /\ probed = <<>>
        /\ lastAbs = <<>>
        /\ iteration = 0

NoDetectorWitness ==
    /\ pc = "exited"
    /\ detector = "RuntimeError"
    /\ args.iterations > 0

\* C11: no failure of a probe (camera handle, absolute move, position query,
\* capture, detector call, maneuver) ends the run: once the detector is
\* built the run is never ended by an exception, whatever calls fail.
RunSurvivesProbeFailures ==
    IsDetector(detector) => pc # "crashed"

\* C12: when the position query of a maneuver fails, no relative move and no
\* capture is issued for that detection and the run is not ended: the sweep
\* goes on with the next pan position.
FailedPositionQueryAbortsManeuverOnly ==
    FailedCall(trackTrail, "position") =>
        /\ ~Has(trackTrail, "relative_control")
        /\ ~Has(trackTrail, "snap_shot")
        /\ pc # "crashed"

\* C13: a detection whose box has x1 = x2 raises no division by zero: no
\* relative move is issued for it and the run is not ended.
ZeroWidthBoxIsSkipped ==
    (target # <<>> /\ target[1].bbox[1] = target[1].bbox[3]
        /\ AllOk(trackTrail)) =>
        /\ ~Has(trackTrail, "relative_control")
        /\ pc # "crashed"

BoxWidth(d) == d.bbox[3] - d.bbox[1]
BoxHeight(d) == d.bbox[4] - d.bbox[2]
ZoomInRange(z) == minZoomLevel <= z /\ z <= maxZoomLevel

\* C14: for every image size and every box whose centre is the centre of
\* the image ((x1+x2)/2 = W/2 and (y1+y2)/2 = H/2), at every zoom level the
\* camera reports, every relative move of the maneuver has a pan of 0 and a
\* tilt of 0.
CentredBoxNoPanNoTilt ==
    (target # <<>>
        /\ target[1].bbox[1] + target[1].bbox[3] = image_size[1]
        /\ target[1].bbox[2] + target[1].bbox[4] = image_size[2]) =>
        \A i \in DOMAIN relMoves :
            /\ relMoves[i].pan[2] # 0
            /\ relMoves[i].tilt[2] # 0
            /\ IsZeroRat(relMoves[i].pan)
            /\ IsZeroRat(relMoves[i].tilt)

CentredBoxWitness ==
    /\ pc = "next"
    /\ image_size = <<5, 3>>
    /\ target # <<>>
    /\ target[1].bbox = <<1, 1, 4, 2>>
    /\ Len(relMoves) = 2
    /\ relMoves[1].fovAt = 20
    /\ relMoves[1].fov[1] > 0
    /\ IsZeroRat(relMoves[1].pan)
    /\ IsZeroRat(relMoves[1].tilt)

\* C15: for every image width W, every current zoom in [1, 40] and every
\* box of width 0.8 * W, the zoom of the relative move is 0.
FourFifthsWideNoZoom ==
    (Len(relMoves) = 2 /\ target # <<>>
        /\ 5 * BoxWidth(target[1]) = 4 * image_size[1]
        /\ ZoomInRange(relMoves[2].fovAt)) =>
        IsZeroRat(relMoves[2].zoom)

\* C16: for every maneuver with current zoom in [1, 40] and a box of
\* non-zero width and height inside the image, current zoom + zoom of the
\* relative move lies in [1, 40].
ZoomTargetInRange ==
    (Len(relMoves) = 2 /\ target # <<>>
        /\ BoxWidth(target[1]) > 0 /\ BoxHeight(target[1]) > 0
        /\ ZoomInRange(relMoves[2].fovAt)) =>
        LET zoom_level == relMoves[2].fovAt
            n == relMoves[2].zoom[1]
            d == relMoves[2].zoom[2]
        IN  /\ d > 0
            /\ minZoomLevel * d <= zoom_level * d + n
            /\ zoom_level * d + n <= maxZoomLevel * d

\* C17: the field of view at zoom 1 is (65.66, 39.40) and the field of view
\* at zoom 40 is (1.88, 1.09).
FovEndsExact ==
    relMoves # <<>> =>
        /\ (relMoves[1].fovAt = min_zoom) => relMoves[1].fov = <<h_wide, v_wide>>
        /\ (relMoves[1].fovAt = max_zoom) => relMoves[1].fov = <<h_tele, v_tele>>

\* C18: for all zoom levels z1 <= z2, those outside [1, 40] included, the
\* horizontal and the vertical field of view at z2 are at most those at z1.
FovNonIncreasing ==
    relMoves # <<>> =>
        LET z1 == relMoves[1].fovAt
            f1 == relMoves[1].fov
        IN  /\ f1 # <<>>
            /\ \A z2 \in FovInputs :
                  LET f2 == FovAt[z2] IN
                  /\ f2 # <<>>
                  /\ (z1 <= z2) => (f2[1] <= f1[1] /\ f2[2] <= f1[2])
                  /\ (z2 <= z1) => (f1[1] <= f2[1] /\ f1[2] <= f2[2])

FovWitness ==
    /\ relMoves # <<>>
    /\ relMoves[1].fovAt > max_zoom
    /\ relMoves[1].fov = FovAt[max_zoom]
    /\ relMoves[1].fov[1] < FovAt[max_zoom - 1][1]
    /\ FovAt[min_zoom - 1] = <<h_wide, v_wide>>

\* C19: every absolute move of the batch maneuver has a pan in [0, 360): a
\* pan of 360 or more and a pan below 0 are wrapped, and 360 itself is never
\* commanded.
AbsolutePanWrapped ==
    \A i \in DOMAIN absolute_moves :
        LET pan == absolute_moves[i].pan IN
        /\ pan[2] > 0
        /\ 0 <= pan[1]
        /\ pan[1] < PanTurn * pan[2]

\* C20: every absolute move of the batch maneuver has a tilt in [-20, 90]
\* and a zoom in [1, 40], for every camera position and every qualifying
\* detection whose box has a width and a height.
AbsoluteTiltZoomClamped ==
    \A i \in DOMAIN absolute_moves :
        LET tilt == absolute_moves[i].tilt
            zoom == absolute_moves[i].zoom
        IN  /\ tilt[2] > 0
            /\ TiltMin * tilt[2] <= tilt[1]
            /\ tilt[1] <= TiltMax * tilt[2]
            /\ zoom[2] > 0
            /\ minZoomLevel * zoom[2] <= zoom[1]
            /\ zoom[1] <= maxZoomLevel * zoom[2]

\* a box in the lower half of the picture seen from tilt 90 at zoom 40: the
\* tilt asked for is above 90 and the zoom above 40, and both are brought
\* back
AbsoluteClampWitness ==
    /\ pc = "batch_done"
    /\ Len(absolute_moves) = 1
    /\ current_position[2] = TiltMax
    /\ current_position[3] = maxZoomLevel
    /\ absolute_moves[1].bbox[2] + absolute_moves[1].bbox[4] > image_size[2]
    /\ absolute_moves[1].tilt = <<TiltMax, 1>>
    /\ absolute_moves[1].zoom = <<maxZoomLevel, 1>>

BatchQualifies(d) == d.reward <= 100 - args.confidence
OpsOf(t) == [i \in DOMAIN t |-> t[i].op]

\* C21: the batch maneuver asks the camera position once, before any move;
\* the targets of all qualifying detections are computed from that position;
\* then each qualifying detection, in list order, gets one absolute move,
\* followed by one capture; a detection with reward > 1 - confidence gets
\* neither.  (A move that raises is not followed by its capture.)
BatchOrder ==
    LET qual == SelectSeq(detections, BatchQualifies) IN
    /\ (pc = "batch_done") =>
          /\ CountOp(trackTrail, "position") = 1
          /\ trackTrail[2].op = "position"
          /\ Len(absolute_moves) = Len(qual)
          /\ CountOp(trackTrail, "absolute_control") = Len(qual)
          /\ \A i \in DOMAIN absolute_moves :
                absolute_moves[i] =
                    AbsoluteTarget(qual[i], image_size, current_position,
                                   FovAt[current_position[3]])
          /\ \A i \in DOMAIN trackTrail :
                /\ (trackTrail[i].op = "snap_shot") =>
                      /\ trackTrail[i - 1].op = "absolute_control"
                      /\ trackTrail[i - 1].res # "raise"
                /\ (trackTrail[i].op = "absolute_control"
                       /\ trackTrail[i].res # "raise") =>
                      /\ i < Len(trackTrail)
                      /\ trackTrail[i + 1].op = "snap_shot"
    /\ (pc = "crashed") =>
          /\ absolute_moves = <<>>
          /\ ~Has(trackTrail, "absolute_control")
          /\ ~Has(trackTrail, "snap_shot")

\* the first of two detections does not qualify, the second does: one move
\* and one capture, for the second
BatchOrderWitness ==
    /\ pc = "batch_done"
    /\ Len(detections) = 2
    /\ detections[1].reward = 60
    /\ detections[2].reward = 30
    /\ Len(absolute_moves) = 1
    /\ absolute_moves[1].bbox = detections[2].bbox
    /\ OpsOf(trackTrail) =
          <<"CameraControl", "position", "absolute_control", "snap_shot">>

\* C22: in a run whose initial tilt lies in [-20, 90] and whose boredom step
\* is positive, whatever scans found something and whatever scans did not,
\* every absolute move of a probe carries a tilt in [-20, 90].
ProbeTiltInRange ==
    /\ args.tilt \in TiltFloor..90
    /\ args.boredom_tilt_step > 0
    /\ current_tilt \in TiltFloor..args.tilt
    /\ lastAbs # <<>> => lastAbs[2] \in TiltFloor..90

\* the fourth scan of a run from tilt 90 with step 50 probes at tilt 90
\* again: 90, 40, -10, and -60 set back to 90
ProbeTiltWitness ==
    /\ args.tilt = 90
    /\ args.boredom_tilt_step = 50
    /\ iteration = 3
    /\ pc = "decide"
    /\ lastAbs # <<>>
    /\ lastAbs[2] = 90

\* C23: the base tilt changes only in the step that ends a scan, and only
\* when no maneuver was started in that scan; after a scan with a maneuver
\* it is unchanged; the absolute move of every probe carries the pan of the
\* position, the base tilt and the configured zoom, also after a maneuver
\* of an earlier position has zoomed.
TiltChangesOnlyAtEmptyScanEnd ==
    [][ /\ (current_tilt' # current_tilt) =>
              (pc = "endscan" /\ tracks = 0 /\ ~found_object_in_scan)
        /\ (pc = "endscan" /\ tracks > 0) => (current_tilt' = current_tilt)
        /\ (lastAbs' # lastAbs) => pc = "probe"
        /\ (pc = "probe" /\ Has(trail', "absolute_control")) =>
              /\ lastAbs' = <<pans[panIdx], current_tilt, args.zoom>>
              /\ (panIdx > 1 /\ lastAbs # <<>>) =>
                    (lastAbs'[2] = lastAbs[2] /\ lastAbs'[3] = lastAbs[3])
      ]_vars

\* the second scan starts at the initial tilt: with step 5 from -15 an empty
\* first scan would have left -20, so the first scan started a maneuver; its
\* last position was probed with the initial tilt and the configured zoom
TiltFrameWitness ==
    /\ args.boredom_tilt_step = 5
    /\ iteration = 1
    /\ pc = "probe"
    /\ panIdx = 1
    /\ tracks = 0
    /\ current_tilt = args.tilt
    /\ lastAbs = <<pans[Len(pans)], args.tilt, args.zoom>>
    /\ Len(pans) > 1

WaitOf(s) == IF s = <<>> THEN 0 ELSE s[1]

\* C24: after an iteration that took e seconds, with a delay of d seconds
\* configured, the controller sleeps max(0, d - e) seconds: never a negative
\* time, not at all when e >= d, and iteration and sleep together last at
\* least d when d > 0.
WaitsTheRemainingDelay ==
    (pc = "iter" /\ iteration > 0) =>
        /\ WaitOf(slept) = Max(0, args.iterdelay - iteration_time)
        /\ WaitOf(slept) >= 0
        /\ slept # <<>> => slept[1] > 0
        /\ (iteration_time >= args.iterdelay) => slept = <<>>
        /\ (args.iterdelay > 0) =>
              iteration_time + WaitOf(slept) >= args.iterdelay

\* a scan of 2 seconds with a delay of 5 is followed by a sleep of 3
WaitWitness ==
    /\ pc = "iter"
    /\ iteration = 1
    /\ args.iterdelay = 5
    /\ iteration_time = 2
    /\ slept = <<3>>

\* C25: in one iteration each pan position is probed at most once, with at
\* most one absolute move, also when the move or a capture after it failed:
\* the positions probed so far are the first pan values of the list, each
\* once, and the scan has issued no more absolute moves than that.
NoRetryWithinProbe ==
    /\ CountOp(trail, "absolute_control") <= 1
    /\ Len(probed) <= Len(pans)
    /\ \A i \in DOMAIN probed : probed[i] = pans[i]
    /\ \A i, j \in DOMAIN probed : i < j => probed[i] < probed[j]
    /\ sweepCalls["absolute_control"] <= Len(probed)
    /\ pc \in {"decide", "next"} => Len(probed) = panIdx
    /\ pc = "probe" => Len(probed) = panIdx - 1

\* the second position is being probed after a probe of the first position
\* that failed (nothing was followed there, and a call did not succeed): the
\* first position got one move and was left
NoRetryWitness ==
    /\ pc = "decide"
    /\ panIdx = 2
    /\ tracks = 0
    /\ ~sweepClean
    /\ AllOk(trail)
    /\ probed = <<pans[1], pans[2]>>
    /\ sweepCalls["absolute_control"] = 2

\* C26: no capture directly follows a motion command: in the calls of a
\* probe a settle wait lies between the absolute move and every capture, and
\* in the calls of a maneuver a settle wait lies between the last relative
\* move and the confirmation capture.  (The trails hold every step the two
\* functions take at the camera; a wait would show in them as "sleep".)
SettleWaitBeforeCapture ==
    /\ \A i \in DOMAIN trail :
          trail[i].op = "snap_shot" =>
              \E j \in 1..(i - 1) : trail[j].op = "sleep"
    /\ \A i \in DOMAIN trackTrail :
          (trackTrail[i].op = "snap_shot" /\ i > 1) =>
              trackTrail[i - 1].op \notin {"relative_control", "absolute_control"}

\* C27: an operation of the client reports success only when the answer of
\* the server is a successful result of its tool; when the request ends in
\* a connection error, an HTTP error status or the timeout of 30 seconds,
\* the operation raises nothing and returns None, the same for all three.
ClientReportsServerSuccessOnly ==
    client # <<>> =>
        /\ client.result.ok =>
              /\ client.reply.kind = "json"
              /\ client.reply.body = ToolResult(client.op, "CameraControl", "ok")
              /\ client.result.raised = None
        /\ client.reply.kind \in {"ConnectionError", "Timeout", "HTTPError"} =>
              /\ client.result.raised = None
              /\ ~client.result.ok
              /\ client.result.value = <<>>

\* a snapshot request that ran into the timeout has returned None
ClientTimeoutWitness ==
    /\ client # <<>>
    /\ client.op = "take_snapshot"
    /\ client.reply.kind = "Timeout"
    /\ client.result = Return(FALSE, <<>>)

\* C28: every result of the tools move_absolute, move_relative,
\* take_snapshot and stop_movement of the camera server has a field status
\* that is "success" or "error", whether the controller was built or not
\* and whether the camera raises or not.
ToolResultCarriesStatus ==
    (served # <<>> /\ served.tool # "get_position") =>
        Get(served.result, "status") \in {"success", "error"}

IsPrefix(a, b) == Len(a) <= Len(b) /\ \A i \in DOMAIN a : a[i] = b[i]

\* C29: the calls of a probe come in one fixed order, the absolute move
\* before the capture and the capture before the detector (each capture
\* after a position query, and a second capture after the detector); a
\* maneuver is started only after the detector of its probe returned, and
\* its calls come in the order position query, relative moves, confirmation
\* capture; the field of view of the relative move is that of the zoom the
\* query reported.
ProbeAndManeuverOrder ==
    /\ IsPrefix(OpsOf(trail),
                <<"CameraControl", "absolute_control", "position", "snap_shot",
                  "detect", "position", "snap_shot">>)
    /\ \A i, j, k \in DOMAIN trail :
          (trail[i].op = "absolute_control" /\ trail[k].op = "detect"
              /\ j = k - 1) =>
              (i < j /\ trail[j].op = "snap_shot")
    /\ trackTrail # <<>> =>
          /\ Len(trail) >= 5
          /\ trail[2].op = "absolute_control"
          /\ trail[5] = Call("detect", "ok")
          /\ IsPrefix(OpsOf(trackTrail),
                      <<"CameraControl", "position", "relative_control",
                        "relative_control", "snap_shot">>)
    /\ relMoves # <<>> =>
          /\ trackTrail[2] = Call("position", "ok")
          /\ \A i \in DOMAIN relMoves :
                relMoves[i].fov = FovAt[relMoves[i].fovAt]

\* a maneuver with its confirmation capture, after a probe with the
\* configured zoom 1, at a camera that reported zoom 40
ProbeOrderWitness ==
    /\ pc = "next"
    /\ OpsOf(trail) = <<"CameraControl", "absolute_control", "position",
                        "snap_shot", "detect", "position", "snap_shot">>
    /\ OpsOf(trackTrail) = <<"CameraControl", "position", "relative_control",
                             "relative_control", "snap_shot">>
    /\ lastAbs[3] = 1
    /\ relMoves[1].fovAt = 40
    /\ relMoves[1].fov = FovAt[40]

\* C30: a run in which every port call returns ends after args.iterations
\* scans, each with one absolute move per pan position: a scan whose calls
\* all returned normally is never cut short, a finished scan has issued
\* ceil(360 / panstep) absolute moves, and the run is over after exactly
\* args.iterations scans.
RunCompletesAllScans ==
    /\ (IsDetector(detector) /\ sweepClean) => pc # "crashed"
    /\ pc = "endscan" => sweepCalls["absolute_control"] = Len(pans)
    /\ pc = "done" => iteration = args.iterations

IsErrorResult(result) ==
    "error" \in DOMAIN result \/ Get(result, "status") = "error"

\* C31: a tool of the camera server that runs while the camera controller is
\* not initialized calls nothing on the camera and returns an error result;
\* a tool during which the camera raises returns an error result: there is
\* a result, and it is an error.
ToolFailsWithErrorResult ==
    served # <<>> =>
        /\ served.controller = None =>
              /\ served.commands = <<>>
              /\ IsErrorResult(served.result)
        /\ (served.controller # None /\ served.cam = "raise") =>
              /\ served.commands = <<CameraMethod(served.tool)>>
              /\ IsErrorResult(served.result)
        /\ (served.controller # None /\ served.cam = "ok") =>
              ~IsErrorResult(served.result)

\* get_position was called on the server before main() built the controller
ToolUninitializedWitness ==
    /\ served # <<>>
    /\ served.tool = "get_position"
    /\ served.controller = None
    /\ camera_controller = None
    /\ served.commands = <<>>
    /\ served.result = NotInitialized

ResetPeriod == ((args.tilt - TiltFloor) \div args.boredom_tilt_step) + 1

\* C32 as stated: with a boredom step s > 0 and an initial tilt T >= -20,
\* after k consecutive scans without a maneuver the base tilt is T - k*s
\* while that is >= -20, and it is T again after floor((T + 20) / s) + 1
\* consecutive such scans.
TiltFollowsEmptyRun ==
    (pc = "iter" /\ empty_run > 0) =>
        current_tilt = args.tilt
                       - (empty_run % ResetPeriod) * args.boredom_tilt_step

\* C32, amended: the scans counted are all the scans without a maneuver
\* since the tilt was last T (the start of the run or the last reset),
\* whether or not scans with a maneuver, which leave the tilt as it is, lie
\* between them: after k such scans the tilt is T - k*s while that is >= -20,
\* and every (floor((T + 20) / s) + 1)-th of them sets it back to T.
TiltFollowsEmptySweeps ==
    /\ args.boredom_tilt_step > 0
    /\ args.tilt >= TiltFloor
    /\ current_tilt = args.tilt
                      - (empty_sweeps % ResetPeriod) * args.boredom_tilt_step
    /\ current_tilt >= TiltFloor

\* from tilt 0 with step 10: three scans without a maneuver (0, -10, -20,
\* and -30 set back to 0) and one scan with a maneuver among the four
TiltReturnsWitness ==
    /\ pc = "iter"
    /\ args.tilt = 0
    /\ args.boredom_tilt_step = 10
    /\ iteration = 4
    /\ empty_sweeps = 3
    /\ empty_run < 3
    /\ current_tilt = 0

====
